---- MODULE Spec2Model ----
(***************************************************************************)
(* The BeautyBird booking handler of main.go: bbScheduler, checkTime and   *)
(* RenderDefaultTemplate, with the two MessageBird calls (lookup.Read and  *)
(* sms.Create) as external collaborators whose outcome is chosen by the    *)
(* environment.                                                            *)
(*                                                                         *)
(* Time.  An instant is an integer number of ticks since 00:00 of day 0 in *)
(* the fixed zone Europe/Amsterdam (TicksPerHour ticks to the hour).  The  *)
(* modelled days hold no daylight-saving transition, so the wall clock of  *)
(* an instant t is day DateOf(t), tick TimeOfDay(t) of that day.           *)
(***************************************************************************)
EXTENDS Integers, Sequences, FiniteSets, TLC

VARIABLES
    clock,        \* the system clock, what time.Now() returns
    tzdata,       \* whether time.LoadLocation("Europe/Amsterdam") succeeds on this host
    client,       \* the global *messagebird.Client (main.go:18)
    serverUp,     \* the process is running (log.Fatal ends it)
    pc,           \* per request: where its handler goroutine stands
    form,         \* per request: r.Method and the form values
    BookingEmpty, \* per request: local BookingEmpty (main.go:73)
    bookingTime,  \* per request: local bookingTime (main.go:82)
    parseErr,     \* per request: whether time.ParseInLocation returned an error
    reminderTime, \* per request: local reminderTime (main.go:87)
    ThisBooking,  \* per request: local ThisBooking (main.go:91)
    now,          \* per request: local now of checkTime (main.go:159)
    status,       \* per request: local status (main.go:107)
    lookupCalls,  \* per request: the lookup.Read calls made, with their outcome
    smsCalls,     \* per request: the sms.Create calls made, with their outcome
    rendered      \* per request: the data handed to RenderDefaultTemplate

vars == <<clock, tzdata, client, serverUp, pc, form, BookingEmpty, bookingTime,
          parseErr, reminderTime, ThisBooking, now, status, lookupCalls,
          smsCalls, rendered>>

----------------------------------------------------------------------------
(* Bounds of the model *)

TicksPerHour == 1   \* resolution of the clock and of the form's time field
MaxDay == 2         \* the form's date field ranges over days 0..MaxDay
StartHour == 7      \* the clock starts at this hour of day 1
MaxElapsed == 8     \* the clock advances at most this many ticks
FarDay == 200000    \* a date the form can carry, centuries after day 0

(* The slots of concurrently served requests; net/http runs the handler of *)
(* each request in a goroutine of its own.                                 *)
Reqs == {1, 2}

TicksPerDay == 24 * TicksPerHour

----------------------------------------------------------------------------
(* package time, as far as the handler uses it *)

\* time.Date(y, m, d, hour, 0, 0, 0, loc): the instant of a wall clock in loc
Date(day, hour) == day * TicksPerDay + hour * TicksPerHour

\* t.Year(), t.Month(), t.Day(): the calendar date of an instant
DateOf(t) == t \div TicksPerDay

TimeOfDay(t) == t % TicksPerDay

\* The zero time.Time, January 1 of year 1: about 2023 years before day 0.
ZeroTime == -(2023 * 365 * TicksPerDay)

\* The largest time.Duration, 1<<63 - 1 nanoseconds: 2562047 whole hours.
maxDuration == 2562047 * TicksPerHour

\* Mutant: the difference is not saturated and wraps around
SubWrapping(t, u) ==
    LET d == t - u IN
        IF d > maxDuration THEN d - 2 * (maxDuration + 1)
        ELSE IF d < -maxDuration - 1 THEN d + 2 * (maxDuration + 1)
        ELSE d

\* t.Sub(u): the duration t-u, saturated at the largest and smallest Duration
Sub(t, u) ==
    IF t - u > maxDuration THEN maxDuration
    ELSE IF t - u < -maxDuration THEN -maxDuration
    ELSE t - u

\* t.Before(u), t.After(u)
Before(t, u) == t < u
After(t, u) == t > u

\* Mutant: the duration is applied with the wrong sign
AddNegated(t, d) == t - d

\* t.Add(d)
Add(t, d) == t + d

TwoDigits(n) == IF n < 10 THEN "0" \o ToString(n) ELSE ToString(n)

\* The hour of a 12-hour clock
Hour12(t) ==
    LET h == (TimeOfDay(t) \div TicksPerHour) % 12 IN IF h = 0 THEN 12 ELSE h

Minute(t) == ((TimeOfDay(t) % TicksPerHour) * 60) \div TicksPerHour

AmPm(t) == IF TimeOfDay(t) \div TicksPerHour < 12 THEN "AM" ELSE "PM"

\* t.Format("03:04 PM")
FormatKitchen(t) ==
    TwoDigits(Hour12(t)) \o ":" \o TwoDigits(Minute(t)) \o " " \o AmPm(t)

\* t.Format("2006-01-02"): the calendar date, written as the day's number
FormatDate(t) == "day " \o ToString(DateOf(t))

\* t.Format("Mon, 02 Jan 2006 3:04 PM"): the date and the 12-hour wall clock
FormatLong(t) ==
    FormatDate(t) \o " " \o ToString(Hour12(t)) \o ":" \o TwoDigits(Minute(t))
        \o " " \o AmPm(t)

----------------------------------------------------------------------------
(* The form *)

\* A date or time field that does not match the layout "2006-01-02 15:04"
Malformed == -1

Days == 0 .. MaxDay
FormDates == Days \cup {FarDay, Malformed}
FormTimes == (0 .. TicksPerDay - 1) \cup {Malformed}
Names == {"Ann", "Bo"}
Treatments == {"Haircut"}
ValidPhones == {"+31624971134"}
Phones == ValidPhones \cup {"12"}

Forms ==
    [method : {"POST"}, name : Names, treatment : Treatments, phone : Phones,
     date : FormDates, time : FormTimes]

\* A GET carries no form values: r.FormValue returns "" for each
NoForm ==
    [method |-> "GET", name |-> "", treatment |-> "", phone |-> "",
     date |-> Malformed, time |-> Malformed]

Requests == Forms \cup {NoForm}

\* time.ParseInLocation("2006-01-02 15:04", date+" "+time, loc): the instant
\* and whether an error was returned; on error the zero Time is returned.
ParseInLocation(date, time) ==
    IF date = Malformed \/ time = Malformed
    THEN [t |-> ZeroTime, err |-> TRUE]
    ELSE [t |-> date * TicksPerDay + time, err |-> FALSE]

----------------------------------------------------------------------------
(* Process-wide values of bbScheduler *)

\* time.ParseDuration("3h")
reminderHours == 3

\* Mutant: "3m" where "3h" was meant
reminderDiffMinutes == (reminderHours * TicksPerHour) \div 60

reminderDiff == reminderHours * TicksPerHour

\* The hours given to time.Date for openingTime and closingTime
openingHour == 9
closingHour == 18

\* The nil *time.Time of a booking whose BookingTime is not set
Nil == ZeroTime - 1

\* booking{}: every field at its zero value
ZeroBooking ==
    [Name |-> "", Treatment |-> "", Phone |-> "", BookingTime |-> Nil,
     MinDate |-> ""]

----------------------------------------------------------------------------
(* checkTime *)

openingTime(bt) == Date(DateOf(bt), openingHour)

\* Mutant: the closing time is built in UTC, an hour later in Amsterdam
closingTimeUTC(bt) == Date(DateOf(bt), closingHour + 1)

closingTime(bt) == Date(DateOf(bt), closingHour)

BeforeNowMsg == "Cannot make a booking before now. Please try again!"

NotOpenMsg(bt) ==
    "We're not open yet! Please book your appointment between "
        \o FormatKitchen(openingTime(bt)) \o " and "
        \o FormatKitchen(closingTime(bt)) \o "."

ClosedMsg(bt) ==
    "We're closed! Please book your appointment between "
        \o FormatKitchen(openingTime(bt)) \o " and "
        \o FormatKitchen(closingTime(bt)) \o "."

\* strings.Split(rd.String(), "h")[0]: the whole hours of the duration
HoursText(rd) == ToString(rd \div TicksPerHour)

TooSoonMsg(rd) ==
    "Please book an appointment " \o HoursText(rd) \o " hours in advance."

SuccessMsg == "Success!"

\* Mutant: only the dates are compared
IsBeforeNowDateOnly(bt, nw) == DateOf(bt) < DateOf(nw)

\* Mutant: the lead time tested is an hour shorter than the reminder's
IsTooSoonShort(bt, rd, nw) == Sub(bt, nw) < rd - TicksPerHour

\* The cases of the switch, in the order the code tries them
IsBeforeNow(bt, nw) == Before(bt, nw)
IsBeforeOpening(bt) == Before(bt, openingTime(bt))
IsAfterClosing(bt) == After(bt, closingTime(bt))
IsTooSoon(bt, rd, nw) == Sub(bt, nw) < rd

\* Mutant: the opening-hours cases are tried before the comparison with now
checkTimeHoursFirst(bt, rd, nw) ==
    IF IsBeforeOpening(bt) THEN NotOpenMsg(bt)
    ELSE IF IsAfterClosing(bt) THEN ClosedMsg(bt)
    ELSE IF IsBeforeNow(bt, nw) THEN BeforeNowMsg
    ELSE IF IsTooSoon(bt, rd, nw) THEN TooSoonMsg(rd)
    ELSE SuccessMsg

\* Mutant: the opening hours are those of today, not of the booking's day
checkTimeTodayHours(bt, rd, nw) ==
    IF IsBeforeNow(bt, nw) THEN BeforeNowMsg
    ELSE IF Before(bt, openingTime(nw)) THEN NotOpenMsg(nw)
    ELSE IF After(bt, closingTime(nw)) THEN ClosedMsg(nw)
    ELSE IF IsTooSoon(bt, rd, nw) THEN TooSoonMsg(rd)
    ELSE SuccessMsg

\* Mutant: the lead-time case is missing
checkTimeNoLead(bt, rd, nw) ==
    IF IsBeforeNow(bt, nw) THEN BeforeNowMsg
    ELSE IF IsBeforeOpening(bt) THEN NotOpenMsg(bt)
    ELSE IF IsAfterClosing(bt) THEN ClosedMsg(bt)
    ELSE SuccessMsg

\* Mutant: the lead time is compared with <= instead of <
checkTimeLeadStrict(bt, rd, nw) ==
    IF IsBeforeNow(bt, nw) THEN BeforeNowMsg
    ELSE IF IsBeforeOpening(bt) THEN NotOpenMsg(bt)
    ELSE IF IsAfterClosing(bt) THEN ClosedMsg(bt)
    ELSE IF Sub(bt, nw) <= rd THEN TooSoonMsg(rd)
    ELSE SuccessMsg

\* checkTime(w, bookingTime, reminderDiff, loc), with nw the value that
\* time.Now().In(loc) returned inside it
checkTime(bt, rd, nw) ==
    IF IsBeforeNow(bt, nw) THEN BeforeNowMsg
    ELSE IF IsBeforeOpening(bt) THEN NotOpenMsg(bt)
    ELSE IF IsAfterClosing(bt) THEN ClosedMsg(bt)
    ELSE IF IsTooSoon(bt, rd, nw) THEN TooSoonMsg(rd)
    ELSE SuccessMsg

----------------------------------------------------------------------------
(* The external collaborators *)

\* What lookup.Read can return for a number: it reports a number it cannot
\* validate as an error, and any call can fail on the way to the service.
LookupOutcomes(phone) ==
    IF phone \in ValidPhones THEN {"none", "failure"} ELSE {"invalid", "failure"}

\* What sms.Create can return
SmsOutcomes == {"none", "failure"}

\* err.Error() of an error the MessageBird client returns
ErrorText(err) == "API errors: " \o err

\* fmt.Sprintln(err)
Sprintln(err) == ErrorText(err) \o "\n"

----------------------------------------------------------------------------
(* bbScheduler *)

PhoneMsg == "Please enter a valid phone number."

\* Mutant: only a number reported invalid stops the handler
LookupFailedOnlyInvalid(err) == err = "invalid"

\* err != nil after lookup.Read
LookupFailed(err) == err # "none"

\* Mutant: any status at all counts as success
IsSuccessNonEmpty(st) == st # ""

\* status == "Success!"
IsSuccess(st) == st = SuccessMsg

\* Mutant: the error of sms.Create is dropped
SmsFailedNever(err) == FALSE

\* err != nil after sms.Create
SmsFailed(err) == err # "none"

successStatus(bt, treatment, phone, rt) ==
    "Done! We've set up an appointment for you at " \o FormatLong(bt)
        \o " for " \o treatment \o ". We'll send a reminder to " \o phone
        \o " at " \o FormatLong(rt) \o ". Thanks for using BeautyBird!"

reminderMessage(bt) ==
    "Gentle reminder: you've got an appointment with BeautyBird at "
        \o FormatLong(bt) \o ". See you then!"

failureStatus(err) ==
    Sprintln(err) \o ". Please check your details and try again!"

\* The booking{...} literal that populates ThisBooking
MakeBooking(f, bt, nw) ==
    [Name |-> f.name, Treatment |-> f.treatment, Phone |-> f.phone,
     BookingTime |-> bt, MinDate |-> FormatDate(nw)]

\* bookingContainer{booking, message}
bookingContainer(b, msg) == [Booking |-> b, Message |-> msg]

\* The sms.Create call of the handler
SmsCall(phone, body, at, err) ==
    [originator |-> "BeautyBird", recipients |-> <<phone>>, body |-> body,
     ScheduledDatetime |-> at, err |-> err]

\* The lookup.Read call of the handler
LookupCall(phone, err) == [phone |-> phone, CountryCode |-> "NL", err |-> err]

(* RenderDefaultTemplate(w, "views/booking.gohtml", data), followed by the  *)
(* handler's return.  ok: template.ParseFiles and t.ExecuteTemplate return  *)
(* no error; otherwise log.Fatal ends the process.                          *)
RenderDefaultTemplate(r, data, ok) ==
    /\ rendered' = [rendered EXCEPT ![r] = Append(@, data)]
    /\ serverUp' = ok
    /\ pc' = [pc EXCEPT ![r] = IF ok THEN "done" ELSE "fatal"]

StartClock == Date(1, StartHour)

\* An hour before the midnight that ends day 1
LateClock == Date(2, 0) - TicksPerHour

\* The clock has run its course from StartClock, or from LateClock
ClockStops ==
    \/ clock = StartClock + MaxElapsed
    \/ clock = LateClock + 2 * TicksPerHour

(* The process after main has set client and started serving, at clock     *)
(* value c, with the request slots live able to serve.                     *)
Started(c, live) ==
    /\ clock = c
    /\ tzdata \in BOOLEAN
    /\ client = "messagebird.Client"
    /\ serverUp = TRUE
    /\ pc = [r \in Reqs |-> IF r \in live THEN "idle" ELSE "off"]
    /\ form = [r \in Reqs |-> NoForm]
    /\ BookingEmpty = [r \in Reqs |-> ZeroBooking]
    /\ bookingTime = [r \in Reqs |-> ZeroTime]
    /\ parseErr = [r \in Reqs |-> FALSE]
    /\ reminderTime = [r \in Reqs |-> ZeroTime]
    /\ ThisBooking = [r \in Reqs |-> ZeroBooking]
    /\ now = [r \in Reqs |-> ZeroTime]
    /\ status = [r \in Reqs |-> ""]
    /\ lookupCalls = [r \in Reqs |-> <<>>]
    /\ smsCalls = [r \in Reqs |-> <<>>]
    /\ rendered = [r \in Reqs |-> <<>>]

\* One request at a time, in the morning of day 1 or around midnight
Init == \E c \in {StartClock, LateClock} : Started(c, {1})

(* Time passes. *)
Tick ==
    /\ serverUp
    /\ ~ClockStops
    /\ clock' = clock + 1
    /\ UNCHANGED <<tzdata, client, serverUp, pc, form, BookingEmpty,
                   bookingTime, parseErr, reminderTime, ThisBooking, now,
                   status, lookupCalls, smsCalls, rendered>>

(* net/http calls bbScheduler for request f in a goroutine of its own; the *)
(* handler runs to the test of r.Method.  With loc nil, time.Now().In(loc)  *)
(* panics.                                                                  *)
Begin(r, f) ==
    /\ serverUp
    /\ pc[r] = "idle"
    /\ form' = [form EXCEPT ![r] = f]
    /\ BookingEmpty' =
           [BookingEmpty EXCEPT
               ![r] = IF tzdata
                      THEN [ZeroBooking EXCEPT !.MinDate = FormatDate(clock)]
                      ELSE ZeroBooking]
    /\ pc' = [pc EXCEPT ![r] = IF tzdata THEN "branch" ELSE "panicked"]
    /\ UNCHANGED <<clock, tzdata, client, serverUp, bookingTime, parseErr,
                   reminderTime, ThisBooking, now, status, lookupCalls,
                   smsCalls, rendered>>

(* The handler has returned, or net/http has recovered its panic: the      *)
(* request is over, its goroutine ends and the slot serves the next one.   *)
Finish(r) ==
    /\ serverUp
    /\ pc[r] \in {"done", "panicked"}
    /\ pc' = [pc EXCEPT ![r] = "idle"]
    /\ form' = [form EXCEPT ![r] = NoForm]
    /\ BookingEmpty' = [BookingEmpty EXCEPT ![r] = ZeroBooking]
    /\ bookingTime' = [bookingTime EXCEPT ![r] = ZeroTime]
    /\ parseErr' = [parseErr EXCEPT ![r] = FALSE]
    /\ reminderTime' = [reminderTime EXCEPT ![r] = ZeroTime]
    /\ ThisBooking' = [ThisBooking EXCEPT ![r] = ZeroBooking]
    /\ now' = [now EXCEPT ![r] = ZeroTime]
    /\ status' = [status EXCEPT ![r] = ""]
    /\ lookupCalls' = [lookupCalls EXCEPT ![r] = <<>>]
    /\ smsCalls' = [smsCalls EXCEPT ![r] = <<>>]
    /\ rendered' = [rendered EXCEPT ![r] = <<>>]
    /\ UNCHANGED <<clock, tzdata, client, serverUp>>

(* r.Method is not "POST": the default render with BookingEmpty. *)
RenderEmpty(r, ok) ==
    /\ serverUp
    /\ pc[r] = "branch"
    /\ form[r].method # "POST"
    /\ RenderDefaultTemplate(r, bookingContainer(BookingEmpty[r], ""), ok)
    /\ UNCHANGED <<clock, tzdata, client, form, BookingEmpty, bookingTime,
                   parseErr, reminderTime, ThisBooking, now, status,
                   lookupCalls, smsCalls>>

(* Mutant: bookingTime is a package-level variable, shared by the handlers *)
(* of all requests.                                                        *)
ParsePostShared(r) ==
    /\ serverUp
    /\ pc[r] = "branch"
    /\ form[r].method = "POST"
    /\ LET p == ParseInLocation(form[r].date, form[r].time) IN
          /\ bookingTime' = [q \in Reqs |-> p.t]
          /\ parseErr' = [parseErr EXCEPT ![r] = p.err]
          /\ reminderTime' = [reminderTime EXCEPT ![r] = Add(p.t, -reminderDiff)]
          /\ ThisBooking' = [ThisBooking EXCEPT ![r] = MakeBooking(form[r], p.t, clock)]
    /\ pc' = [pc EXCEPT ![r] = "lookup"]
    /\ UNCHANGED <<clock, tzdata, client, serverUp, form, BookingEmpty, now,
                   status, lookupCalls, smsCalls, rendered>>

(* r.Method is "POST": parse the form, compute reminderTime, populate      *)
(* ThisBooking.                                                            *)
ParsePost(r) ==
    /\ serverUp
    /\ pc[r] = "branch"
    /\ form[r].method = "POST"
    /\ LET p == ParseInLocation(form[r].date, form[r].time) IN
          /\ bookingTime' = [bookingTime EXCEPT ![r] = p.t]
          /\ parseErr' = [parseErr EXCEPT ![r] = p.err]
          /\ reminderTime' = [reminderTime EXCEPT ![r] = Add(p.t, -reminderDiff)]
          /\ ThisBooking' = [ThisBooking EXCEPT ![r] = MakeBooking(form[r], p.t, clock)]
    /\ pc' = [pc EXCEPT ![r] = "lookup"]
    /\ UNCHANGED <<clock, tzdata, client, serverUp, form, BookingEmpty, now,
                   status, lookupCalls, smsCalls, rendered>>

(* lookup.Read returns err; on an error the handler renders PhoneMsg and   *)
(* returns.                                                                *)
Lookup(r, err, ok) ==
    /\ serverUp
    /\ pc[r] = "lookup"
    /\ err \in LookupOutcomes(form[r].phone)
    /\ lookupCalls' = [lookupCalls EXCEPT ![r] = Append(@, LookupCall(form[r].phone, err))]
    /\ IF LookupFailed(err)
       THEN RenderDefaultTemplate(r, bookingContainer(ThisBooking[r], PhoneMsg), ok)
       ELSE /\ pc' = [pc EXCEPT ![r] = "checkTime"]
            /\ UNCHANGED <<serverUp, rendered>>
    /\ UNCHANGED <<clock, tzdata, client, form, BookingEmpty, bookingTime,
                   parseErr, reminderTime, ThisBooking, now, status, smsCalls>>

(* Mutant: checkTime reads the clock twice, once into now and, up to a     *)
(* tick later, again for the comparisons.                                  *)
CheckTimeTwoReads(r, ok) ==
    /\ serverUp
    /\ pc[r] = "checkTime"
    /\ now' = [now EXCEPT ![r] = clock]
    /\ \E late \in {0, 1} :
          LET st == checkTime(bookingTime[r], reminderDiff, clock + late) IN
              /\ status' = [status EXCEPT ![r] = st]
              /\ IF IsSuccess(st)
                 THEN /\ pc' = [pc EXCEPT ![r] = "create"]
                      /\ UNCHANGED <<serverUp, rendered>>
                 ELSE RenderDefaultTemplate(r, bookingContainer(ThisBooking[r], st), ok)
    /\ UNCHANGED <<clock, tzdata, client, form, BookingEmpty, bookingTime,
                   parseErr, reminderTime, ThisBooking, lookupCalls, smsCalls>>

(* status := checkTime(...), which reads the clock, and the branches on    *)
(* status that do not schedule.                                            *)
CheckTime(r, ok) ==
    /\ serverUp
    /\ pc[r] = "checkTime"
    /\ now' = [now EXCEPT ![r] = clock]
    /\ LET st == checkTime(bookingTime[r], reminderDiff, clock) IN
          /\ status' = [status EXCEPT ![r] = st]
          /\ IF IsSuccess(st)
             THEN /\ pc' = [pc EXCEPT ![r] = "create"]
                  /\ UNCHANGED <<serverUp, rendered>>
             ELSE IF st # ""
             THEN RenderDefaultTemplate(r, bookingContainer(ThisBooking[r], st), ok)
             ELSE RenderDefaultTemplate(r, bookingContainer(BookingEmpty[r], ""), ok)
    /\ UNCHANGED <<clock, tzdata, client, form, BookingEmpty, bookingTime,
                   parseErr, reminderTime, ThisBooking, lookupCalls, smsCalls>>

(* sms.Create returns err; the handler renders the failure or the          *)
(* confirmation and returns.                                               *)
Create(r, err, ok) ==
    /\ serverUp
    /\ pc[r] = "create"
    /\ err \in SmsOutcomes
    /\ smsCalls' =
           [smsCalls EXCEPT
               ![r] = Append(@, SmsCall(form[r].phone,
                                        reminderMessage(bookingTime[r]),
                                        reminderTime[r], err))]
    /\ IF SmsFailed(err)
       THEN RenderDefaultTemplate(r, bookingContainer(ThisBooking[r], failureStatus(err)), ok)
       ELSE RenderDefaultTemplate(r,
                bookingContainer(ThisBooking[r],
                    successStatus(bookingTime[r], form[r].treatment,
                                  form[r].phone, reminderTime[r])), ok)
    /\ UNCHANGED <<clock, tzdata, client, form, BookingEmpty, bookingTime,
                   parseErr, reminderTime, ThisBooking, now, status,
                   lookupCalls>>

Next ==
    \/ Tick
    \/ \E r \in Reqs, f \in Requests : Begin(r, f)
    \/ \E r \in Reqs : Finish(r)
    \/ \E r \in Reqs, ok \in BOOLEAN : RenderEmpty(r, ok)
    \/ \E r \in Reqs : ParsePost(r)
    \/ \E r \in Reqs, err \in {"none", "invalid", "failure"}, ok \in BOOLEAN :
          Lookup(r, err, ok)
    \/ \E r \in Reqs, ok \in BOOLEAN : CheckTime(r, ok)
    \/ \E r \in Reqs, err \in SmsOutcomes, ok \in BOOLEAN : Create(r, err, ok)

Spec == Init /\ [][Next]_vars

(* Two requests served concurrently, their handler steps interleaved in    *)
(* any order, each carrying one of a few forms.                            *)
ConcRequests ==
    {f \in Forms : /\ f.date = 1
                   /\ f.time \in {10 * TicksPerHour, 12 * TicksPerHour}
                   /\ (f.name = "Ann" <=> f.phone \in ValidPhones)}
        \cup {NoForm}

InitConc == Started(StartClock, Reqs)

NextConc ==
    \/ Tick
    \/ \E r \in Reqs, f \in ConcRequests : Begin(r, f)
    \/ \E r \in Reqs : Finish(r)
    \/ \E r \in Reqs, ok \in BOOLEAN : RenderEmpty(r, ok)
    \/ \E r \in Reqs : ParsePost(r)
    \/ \E r \in Reqs, err \in {"none", "invalid", "failure"}, ok \in BOOLEAN :
          Lookup(r, err, ok)
    \/ \E r \in Reqs, ok \in BOOLEAN : CheckTime(r, ok)
    \/ \E r \in Reqs, err \in SmsOutcomes, ok \in BOOLEAN : Create(r, err, ok)

SpecConc == InitConc /\ [][NextConc]_vars

----------------------------------------------------------------------------
(* Properties *)

\* The last element of a non-empty sequence
Last(q) == q[Len(q)]

\* The lookup of request r has returned an error
PhoneRejected(r) == lookupCalls[r] # <<>> /\ Last(lookupCalls[r]).err # "none"

\* checkTime has run for request r: it has read the clock into now
Validated(r) == now[r] # ZeroTime

\* The handler of request r has stopped: it has rendered and returned, or
\* the render ended the process
Stopped(r) == pc[r] \in {"done", "fatal"}

\* Request r rendered exactly once, the submitted name, treatment and phone
\* with message msg
RenderedForm(r, msg) ==
    /\ Len(rendered[r]) = 1
    /\ rendered[r][1].Booking.Name = form[r].name
    /\ rendered[r][1].Booking.Treatment = form[r].treatment
    /\ rendered[r][1].Booking.Phone = form[r].phone
    /\ rendered[r][1].Message = msg

\* The texts of the outcomes, as the user reads them
BeforeNowText == "Cannot make a booking before now. Please try again!"
BeforeOpeningText ==
    "We're not open yet! Please book your appointment between 09:00 AM and 06:00 PM."
AfterClosingText ==
    "We're closed! Please book your appointment between 09:00 AM and 06:00 PM."
TooSoonText == "Please book an appointment 3 hours in advance."
ValidText == "Success!"

\* The opening and closing instants of the calendar day of instant t, and
\* the lead time, from the figures of the specification
OpensAt(t) == (t \div TicksPerDay) * TicksPerDay + 9 * TicksPerHour
ClosesAt(t) == (t \div TicksPerDay) * TicksPerDay + 18 * TicksPerHour
LeadTime == 3 * TicksPerHour
WithinHours(t) == OpensAt(t) <= t /\ t <= ClosesAt(t)

(* C1: a POST whose phone lookup returns an error, whether the number is   *)
(* invalid or the call failed, stops with "Please enter a valid phone      *)
(* number.", renders the submitted name, treatment and phone, and never    *)
(* calls sms.Create.                                                       *)
C1_InvalidPhoneStops ==
    \A r \in Reqs :
        PhoneRejected(r) =>
            /\ Stopped(r)
            /\ RenderedForm(r, "Please enter a valid phone number.")
            /\ smsCalls[r] = <<>>

\* A well-formed number whose lookup failed on the way, with a bookable time
C1_Witness ==
    \E r \in Reqs :
        /\ pc[r] = "done"
        /\ form[r].phone \in ValidPhones
        /\ Last(lookupCalls[r]).err = "failure"
        /\ form[r].name = "Bo"
        /\ WithinHours(bookingTime[r])
        /\ bookingTime[r] - clock >= LeadTime

(* C2: a POST whose time validation is not "Success!" stops, reports the   *)
(* message of its outcome and never calls sms.Create.                      *)
C2_RejectedTimeStops ==
    \A r \in Reqs :
        (Validated(r) /\ status[r] # ValidText) =>
            /\ Stopped(r)
            /\ status[r] \in {BeforeNowText, BeforeOpeningText,
                              AfterClosingText, TooSoonText}
            /\ RenderedForm(r, status[r])
            /\ smsCalls[r] = <<>>

\* A booking rejected as too soon has been answered
C2_Witness ==
    \E r \in Reqs :
        pc[r] = "done" /\ status[r] = TooSoonText /\ form[r].name = "Ann"

(* C3: an appointment is accepted (validation succeeds, a reminder is      *)
(* scheduled) only if it lies within 09:00 and 18:00, both inclusive, of   *)
(* its own calendar day and at least three hours after the now that the    *)
(* validation read.                                                        *)
C3_AcceptedOnlyIfBookable ==
    \A r \in Reqs :
        ((Validated(r) /\ status[r] = ValidText) \/ smsCalls[r] # <<>>) =>
            /\ WithinHours(bookingTime[r])
            /\ bookingTime[r] - now[r] >= LeadTime

\* A reminder scheduled for an appointment at closing time
C3_Witness ==
    \E r \in Reqs :
        /\ smsCalls[r] # <<>>
        /\ bookingTime[r] = ClosesAt(bookingTime[r])

(* C4: an appointment strictly before now is rejected as before now,       *)
(* whatever the opening hours and the lead time say.                       *)
C4_BeforeNow ==
    \A r \in Reqs :
        (Validated(r) /\ bookingTime[r] < now[r]) => status[r] = BeforeNowText

\* Scenario E: exactly at opening time, on a day before now
C4_Witness ==
    \E r \in Reqs :
        /\ Validated(r)
        /\ ~parseErr[r]
        /\ bookingTime[r] = OpensAt(bookingTime[r])
        /\ bookingTime[r] \div TicksPerDay < now[r] \div TicksPerDay

(* C5: an appointment strictly before the opening time of its date is      *)
(* rejected as before opening, unless it is also strictly before now.      *)
C5_BeforeOpening ==
    \A r \in Reqs :
        (/\ Validated(r)
         /\ bookingTime[r] < OpensAt(bookingTime[r])
         /\ ~(bookingTime[r] < now[r])) => status[r] = BeforeOpeningText

\* Scenario B: before opening, still after now
C5_Witness ==
    \E r \in Reqs :
        /\ Validated(r)
        /\ bookingTime[r] < OpensAt(bookingTime[r])
        /\ bookingTime[r] > now[r]

(* C6, as stated: an appointment strictly after the closing time of its    *)
(* date is rejected as after closing.                                      *)
C6_AfterClosingAlways ==
    \A r \in Reqs :
        (/\ Validated(r)
         /\ ~parseErr[r]
         /\ bookingTime[r] > ClosesAt(bookingTime[r])) =>
            status[r] = AfterClosingText

(* C6, amended: an appointment strictly after the closing time of its date *)
(* is rejected as after closing, unless it is also strictly before now.    *)
C6_AfterClosing ==
    \A r \in Reqs :
        (/\ Validated(r)
         /\ bookingTime[r] > ClosesAt(bookingTime[r])
         /\ ~(bookingTime[r] < now[r])) => status[r] = AfterClosingText

\* Scenario C: an hour after closing, later today
C6_Witness ==
    \E r \in Reqs :
        /\ Validated(r)
        /\ bookingTime[r] = ClosesAt(bookingTime[r]) + TicksPerHour
        /\ bookingTime[r] > now[r]
        /\ bookingTime[r] \div TicksPerDay = now[r] \div TicksPerDay

(* C7: an appointment within opening hours and at or after now, but less   *)
(* than the lead time after now, is rejected as too soon.                  *)
C7_TooSoon ==
    \A r \in Reqs :
        (/\ Validated(r)
         /\ WithinHours(bookingTime[r])
         /\ bookingTime[r] >= now[r]
         /\ bookingTime[r] - now[r] < LeadTime) => status[r] = TooSoonText

\* Scenario D: within hours, one hour after now
C7_Witness ==
    \E r \in Reqs :
        /\ Validated(r)
        /\ WithinHours(bookingTime[r])
        /\ bookingTime[r] - now[r] = TicksPerHour

(* C8: an appointment within opening hours and at least the lead time      *)
(* after now is valid.                                                     *)
C8_Valid ==
    \A r \in Reqs :
        (/\ Validated(r)
         /\ WithinHours(bookingTime[r])
         /\ bookingTime[r] - now[r] >= LeadTime) => status[r] = ValidText

\* Scenario A: within hours, four hours after now
C8_Witness ==
    \E r \in Reqs :
        /\ pc[r] = "create"
        /\ WithinHours(bookingTime[r])
        /\ bookingTime[r] - now[r] = 4 * TicksPerHour

(* C9: the bounds are inclusive.  An appointment at the opening instant is *)
(* never before opening, one at the closing instant never after closing,   *)
(* one exactly the lead time after now never too soon, and one exactly at  *)
(* now never before now.                                                   *)
C9_InclusiveBounds ==
    \A r \in Reqs :
        Validated(r) =>
            /\ bookingTime[r] = OpensAt(bookingTime[r]) =>
                   status[r] # BeforeOpeningText
            /\ bookingTime[r] = ClosesAt(bookingTime[r]) =>
                   status[r] # AfterClosingText
            /\ bookingTime[r] - now[r] = LeadTime => status[r] # TooSoonText
            /\ bookingTime[r] = now[r] => status[r] # BeforeNowText

\* At the closing instant, exactly the lead time after now: accepted
C9_Witness ==
    \E r \in Reqs :
        /\ Validated(r)
        /\ bookingTime[r] = ClosesAt(bookingTime[r])
        /\ bookingTime[r] - now[r] = LeadTime
        /\ status[r] = ValidText

\* Validate of the specification: the first condition that matches, in the
\* order before now, before opening, after closing, too soon, valid
Validate(t, nw) ==
    IF t < nw THEN BeforeNowText
    ELSE IF t < OpensAt(t) THEN BeforeOpeningText
    ELSE IF t > ClosesAt(t) THEN AfterClosingText
    ELSE IF t - nw < LeadTime THEN TooSoonText
    ELSE ValidText

(* C10: checkTime is total and its outcome is the first that matches in    *)
(* the order before now, before opening, after closing, too soon, valid:   *)
(* every call returns one of the five outcomes, the earliest in that order *)
(* whose condition holds.                                                  *)
C10_PriorityOrder ==
    \A r \in Reqs :
        Validated(r) =>
            /\ status[r] \in {BeforeNowText, BeforeOpeningText,
                              AfterClosingText, TooSoonText, ValidText}
            /\ status[r] = Validate(bookingTime[r], now[r])

\* Outside opening hours and also less than the lead time ahead: the
\* opening hours decide
C10_Witness ==
    \E r \in Reqs :
        /\ Validated(r)
        /\ bookingTime[r] >= now[r]
        /\ bookingTime[r] - now[r] < LeadTime
        /\ ~WithinHours(bookingTime[r])
        /\ status[r] # TooSoonText

\* The appointment instant that the date and time fields of request r name
Appointment(r) == form[r].date * TicksPerDay + form[r].time

(* C11: whenever sms.Create is called, its send time is the appointment    *)
(* instant minus the lead time of three hours, and its one recipient is    *)
(* the phone number submitted in the same request.                         *)
C11_ReminderThreeHoursBefore ==
    \A r \in Reqs :
        \A i \in 1 .. Len(smsCalls[r]) :
            /\ ~parseErr[r]
            /\ smsCalls[r][i].ScheduledDatetime = Appointment(r) - LeadTime
            /\ smsCalls[r][i].recipients = <<form[r].phone>>

\* A reminder was scheduled and confirmed
C11_Witness ==
    \E r \in Reqs :
        /\ pc[r] = "done"
        /\ Len(smsCalls[r]) = 1
        /\ smsCalls[r][1].err = "none"
        /\ smsCalls[r][1].ScheduledDatetime = Date(1, 11)

(* C12: if the date and time fields cannot be parsed, the request is not   *)
(* processed further: neither the phone validator, the time validator nor  *)
(* the scheduler is invoked with the zero timestamp in place of the        *)
(* appointment.                                                            *)
C12_MalformedNotProcessed ==
    \A r \in Reqs :
        parseErr[r] =>
            /\ lookupCalls[r] = <<>>
            /\ ~Validated(r)
            /\ smsCalls[r] = <<>>

\* The message is the confirmation "Done! ..."
IsConfirmation(msg) == Len(msg) >= 5 /\ SubSeq(msg, 1, 5) = "Done!"

(* C13: sms.Create is called at most once per request.  If it returns an   *)
(* error, the rendered status is the failure detail followed by the retry  *)
(* prompt, never the confirmation; the confirmation is rendered only after *)
(* a call of the same request that returned no error.                      *)
C13_SchedulingFailureReported ==
    \A r \in Reqs :
        /\ Len(smsCalls[r]) <= 1
        /\ (smsCalls[r] # <<>> /\ smsCalls[r][1].err # "none") =>
               /\ Stopped(r)
               /\ RenderedForm(r,
                      "API errors: failure\n. Please check your details and try again!")
        /\ \A i \in 1 .. Len(rendered[r]) :
               IsConfirmation(rendered[r][i].Message) =>
                   Len(smsCalls[r]) = 1 /\ smsCalls[r][1].err = "none"

\* A failed scheduling has been reported to the user
C13_Witness ==
    \E r \in Reqs :
        /\ pc[r] = "done"
        /\ Len(smsCalls[r]) = 1
        /\ smsCalls[r][1].err = "failure"

\* The handler of request r has ended: it returned, it panicked, or the
\* process ended under it
Ended(r) == pc[r] \in {"done", "panicked", "fatal"}

(* C14: no error that arises while a request is handled is fatal to the    *)
(* process: after any failed request, a failed render included, the server *)
(* is still running and able to serve the next request.                    *)
C14_NoErrorIsFatal ==
    /\ serverUp
    /\ \A r \in Reqs : pc[r] # "fatal"

\* The calendar dates of the instants of the last MaxElapsed ticks, as the
\* form's min attribute writes them
RecentDates ==
    {"day " \o ToString(t \div TicksPerDay) : t \in (clock - MaxElapsed) .. clock}

(* C15: a request that is not a POST renders the booking form with an      *)
(* empty booking that carries only MinDate, today's date in the fixed      *)
(* zone, and an empty message, and calls neither lookup.Read nor           *)
(* sms.Create.                                                             *)
C15_GetRendersEmptyForm ==
    \A r \in Reqs :
        (form[r].method # "POST" /\ Ended(r)) =>
            /\ Len(rendered[r]) = 1
            /\ rendered[r][1].Message = ""
            /\ rendered[r][1].Booking.Name = ""
            /\ rendered[r][1].Booking.Treatment = ""
            /\ rendered[r][1].Booking.Phone = ""
            /\ rendered[r][1].Booking.BookingTime = Nil
            /\ rendered[r][1].Booking.MinDate \in RecentDates
            /\ lookupCalls[r] = <<>>
            /\ smsCalls[r] = <<>>

SameReadingSameOutcome ==
    \A r, q \in Reqs :
        (/\ Validated(r)
         /\ Validated(q)
         /\ bookingTime[r] = bookingTime[q]
         /\ now[r] = now[q]) => status[r] = status[q]

\* The step of request r that runs checkTime writes nothing but what the
\* handler itself assigns or renders after the call
ValidationIsPure ==
    \A r \in Reqs :
        (pc[r] = "checkTime" /\ pc'[r] # "checkTime") =>
            /\ UNCHANGED <<clock, tzdata, client, form, BookingEmpty,
                           bookingTime, parseErr, reminderTime, ThisBooking,
                           lookupCalls, smsCalls>>
            /\ \A q \in Reqs \ {r} :
                   /\ now'[q] = now[q]
                   /\ status'[q] = status[q]
                   /\ rendered'[q] = rendered[q]

Parsed(r) == pc[r] \in {"lookup", "checkTime", "create"} \/ rendered[r] # <<>>

\* The state of request r that its handler keeps
Locals(r) ==
    <<form[r], BookingEmpty[r], bookingTime[r], parseErr[r], reminderTime[r],
      ThisBooking[r], now[r], status[r], lookupCalls[r], smsCalls[r],
      rendered[r]>>

\* What request r holds comes from its own form and its own clock readings:
\* its booking record, its validation outcome, the arguments of its
\* scheduler call and its rendered status
OwnInputsOnly(r) ==
    /\ (form[r].method = "POST" /\ Parsed(r)) =>
           /\ ThisBooking[r].Name = form[r].name
           /\ ThisBooking[r].Treatment = form[r].treatment
           /\ ThisBooking[r].Phone = form[r].phone
           /\ ThisBooking[r].BookingTime = bookingTime[r]
           /\ bookingTime[r] = IF parseErr[r] THEN ZeroTime ELSE Appointment(r)
           /\ reminderTime[r] = bookingTime[r] - LeadTime
    /\ Validated(r) => status[r] = Validate(bookingTime[r], now[r])
    /\ \A i \in 1 .. Len(lookupCalls[r]) :
           lookupCalls[r][i].phone = form[r].phone
    /\ \A i \in 1 .. Len(smsCalls[r]) :
           /\ smsCalls[r][i].recipients = <<form[r].phone>>
           /\ smsCalls[r][i].ScheduledDatetime = Appointment(r) - LeadTime
           /\ smsCalls[r][i].body = reminderMessage(Appointment(r))
    /\ \A i \in 1 .. Len(rendered[r]) :
           IF form[r].method # "POST"
           THEN rendered[r][i] = bookingContainer(BookingEmpty[r], "")
           ELSE /\ rendered[r][i].Booking = ThisBooking[r]
                /\ rendered[r][i].Message =
                       IF PhoneRejected(r) THEN "Please enter a valid phone number."
                       ELSE IF status[r] # ValidText THEN status[r]
                       ELSE IF smsCalls[r][1].err # "none"
                       THEN "API errors: " \o smsCalls[r][1].err
                                \o "\n. Please check your details and try again!"
                       ELSE successStatus(Appointment(r), form[r].treatment,
                                          form[r].phone, Appointment(r) - LeadTime)

\* A step of the handler of request r writes neither the client handle nor
\* anything that another request holds
WritesOwnStateOnly ==
    \A r \in Reqs :
        pc'[r] # pc[r] =>
            /\ client' = client
            /\ \A q \in Reqs \ {r} : Locals(q)' = Locals(q) /\ pc'[q] = pc[q]

(* C17: requests handled concurrently are independent.  No step of a       *)
(* handler writes the client handle, set once before serving, or the state *)
(* of another request, so under every interleaving what a request holds    *)
(* depends only on its own form and its own clock readings.                *)
C17_RequestsIndependent ==
    /\ [](client = "messagebird.Client" /\ \A r \in Reqs : OwnInputsOnly(r))
    /\ [][WritesOwnStateOnly]_vars

\* Two different bookings in flight at once, one answered, one about to be
\* scheduled
C17_Witness ==
    /\ pc[1] = "done"
    /\ pc[2] = "create"
    /\ form[1].method = "POST"
    /\ form[1].phone # form[2].phone
    /\ form[1].time # form[2].time

(* C18: every request produces exactly one rendered response, and every    *)
(* POST is answered with the submitted name, treatment and phone and a     *)
(* status that is not empty: a POST never falls through to the render of   *)
(* the empty form.                                                         *)
C18_ExactlyOneResponse ==
    \A r \in Reqs :
        Ended(r) =>
            /\ pc[r] = "done"
            /\ Len(rendered[r]) = 1
            /\ form[r].method = "POST" =>
                   /\ RenderedForm(r, rendered[r][1].Message)
                   /\ rendered[r][1].Message # ""

(* C19: whenever sms.Create is called, the reminder instant passed to it   *)
(* is not earlier than the now that checkTime read for the same request.   *)
C19_ReminderNotInThePast ==
    \A r \in Reqs :
        \A i \in 1 .. Len(smsCalls[r]) :
            Validated(r) /\ smsCalls[r][i].ScheduledDatetime >= now[r]

\* A reminder scheduled for the very instant of the validation
C19_Witness ==
    \E r \in Reqs :
        /\ smsCalls[r] # <<>>
        /\ smsCalls[r][1].ScheduledDatetime = now[r]

\* The lookup of request r has returned without an error
PhoneAccepted(r) == lookupCalls[r] # <<>> /\ Last(lookupCalls[r]).err = "none"

(* C20: a POST whose date and time fields fail to parse never leads to a   *)
(* call of sms.Create.  The zero timestamp is carried forward, and if the  *)
(* lookup succeeds checkTime rejects it as before now: the request ends    *)
(* with "Cannot make a booking before now. Please try again!".             *)
C20_MalformedNeverScheduled ==
    \A r \in Reqs :
        parseErr[r] =>
            /\ smsCalls[r] = <<>>
            /\ pc[r] # "create"
            /\ bookingTime[r] = ZeroTime
            /\ Validated(r) =>
                   /\ status[r] = BeforeNowText
                   /\ Stopped(r)
                   /\ RenderedForm(r, BeforeNowText)
            /\ (PhoneAccepted(r) /\ Stopped(r)) => Validated(r)

\* A malformed date, a number the lookup accepted, and the answer rendered
C20_Witness ==
    \E r \in Reqs :
        /\ parseErr[r]
        /\ form[r].date = Malformed
        /\ form[r].time # Malformed
        /\ PhoneAccepted(r)
        /\ pc[r] = "done"

====
